---- MODULE Spec2Model ----
(***************************************************************************)
(* Model of the v4l2-demo repository: the V4L2Device wrapper               *)
(* (src/common/v4l2_utils.cpp) and the capture demo                        *)
(* (src/demos/demo1_uyvy422/main.cpp).                                     *)
(*                                                                         *)
(* The kernel side (file descriptors, mmap, the V4L2 driver's buffer       *)
(* queue) is the environment: every ioctl may fail, and a successful one   *)
(* behaves as the V4L2 ABI prescribes.                                     *)
(***************************************************************************)
EXTENDS Integers, Sequences, FiniteSets, TLC

\* ------------------------------------------------------------------ bounds
MaxBufs == 2        \* largest buffer count the driver grants
MaxBytes == 2       \* buffer length the driver reports; bytesused is 1..MaxBytes
MaxLen == 3         \* longest list of formats the driver enumerates
MaxTime == 22       \* last reading of the time() clock that is explored
MaxLag == 1         \* longest time without a printed or a saved frame, and
                    \* largest total_frames - saved_frames, that are explored

\* ------------------------------------------------------- program constants
kMaxSavedFrames == 20
kSaveIntervalSeconds == 1
kVideoWidth == 640
kVideoHeight == 480
kBufferCount == 4

nullptr == 0
MAP_FAILED == 0 - 1
NoFd == 0 - 1

\* v4l2_fourcc(a, b, c, d) of <linux/videodev2.h>, on character codes
v4l2_fourcc(a, b, c, d) == a + b * 256 + c * 65536 + d * 16777216

V4L2_PIX_FMT_YUYV == v4l2_fourcc(89, 85, 89, 86)
V4L2_PIX_FMT_UYVY == v4l2_fourcc(85, 89, 86, 89)
V4L2_PIX_FMT_YUV420 == v4l2_fourcc(89, 85, 49, 50)
V4L2_PIX_FMT_MJPEG == v4l2_fourcc(77, 74, 80, 71)
V4L2_PIX_FMT_JPEG == v4l2_fourcc(74, 80, 69, 71)
\* a format outside the priority list
V4L2_PIX_FMT_H264 == v4l2_fourcc(72, 50, 54, 52)

kPreferredFormats ==
  << V4L2_PIX_FMT_YUYV, V4L2_PIX_FMT_UYVY, V4L2_PIX_FMT_YUV420,
     V4L2_PIX_FMT_MJPEG, V4L2_PIX_FMT_JPEG >>
kPreferredFormatsCount == Len(kPreferredFormats)

\* ------------------------------------------------------------- environment
\* pixel formats a driver may enumerate (0 is what a zeroed descriptor holds)
PixelFormats ==
  { V4L2_PIX_FMT_YUYV, V4L2_PIX_FMT_UYVY, V4L2_PIX_FMT_YUV420,
    V4L2_PIX_FMT_MJPEG, V4L2_PIX_FMT_JPEG, V4L2_PIX_FMT_H264, 0 }

\* formats the capture device of the demo works in
DriverFormats == { V4L2_PIX_FMT_YUYV, V4L2_PIX_FMT_MJPEG }

SeqsUpTo(S, n) == UNION { [1..k -> S] : k \in 0..n }

Addrs == 1..(2 * MaxBufs)
Fds == 3..5

VARIABLES
  \* V4L2Device
  fd_, buffers_, streaming_,
  \* the process and the driver
  open_fds, mapped, created, munmaps,
  drv_count, drv_length, drv_queued, drv_streaming, drv_fmt,
  \* the last call made on the object, and what it returned
  last,
  \* queue bookkeeping since the last successful StartStreaming
  start_queued, only_reads, requeue_failed,
  \* main()
  pc, calls, selected_format, actual_format, stats, now, files,
  sfmt_answer, save_result, saved_file,
  \* SelectBestFormat on its own
  supported_formats, sel_result, sel_done

devVars == << fd_, buffers_, streaming_, open_fds, mapped, created, munmaps,
              drv_count, drv_length, drv_queued, drv_streaming, drv_fmt >>
histVars == << last, start_queued, only_reads, requeue_failed >>
mainVars == << pc, calls, selected_format, actual_format, stats, now, files,
               sfmt_answer, save_result, saved_file >>
selVars == << supported_formats, sel_result, sel_done >>
vars == << devVars, histVars, mainVars, selVars >>

\* the object and its environment as one value
World ==
  [ fd_ |-> fd_, buffers_ |-> buffers_, streaming_ |-> streaming_,
    open_fds |-> open_fds, mapped |-> mapped, created |-> created,
    munmaps |-> munmaps, drv_count |-> drv_count, drv_length |-> drv_length,
    drv_queued |-> drv_queued, drv_streaming |-> drv_streaming,
    drv_fmt |-> drv_fmt ]

NoMunmaps == [a \in Addrs |-> 0]

\* the world at the start of a call: the per-call mmap/munmap record is empty
Forget(w) == [w EXCEPT !.created = {}, !.munmaps = NoMunmaps]
Entry == Forget(World)

Commit(w) ==
  /\ fd_' = w.fd_
  /\ buffers_' = w.buffers_
  /\ streaming_' = w.streaming_
  /\ open_fds' = w.open_fds
  /\ mapped' = w.mapped
  /\ created' = w.created
  /\ munmaps' = w.munmaps
  /\ drv_count' = w.drv_count
  /\ drv_length' = w.drv_length
  /\ drv_queued' = w.drv_queued
  /\ drv_streaming' = w.drv_streaming
  /\ drv_fmt' = w.drv_fmt

\* ------------------------------------------------------------ kernel calls
\* an ioctl succeeds only on a valid descriptor, and may fail on one
IoctlOk(w, ok) == ok /\ w.fd_ >= 0

Munmap(w, a) == [w EXCEPT !.mapped = @ \ {a}, !.munmaps[a] = @ + 1]

\* mmap returns an address that is free and was not handed out in this call
FreeAddrs(w) ==
  { a \in Addrs : a \notin w.mapped /\ a \notin w.created /\ w.munmaps[a] = 0 }
Mmap(w, ok) ==
  IF ok /\ FreeAddrs(w) # {}
  THEN CHOOSE a \in FreeAddrs(w) : \A b \in FreeAddrs(w) : a <= b
  ELSE MAP_FAILED

\* close(fd): the driver drops its buffers and stops the stream
CloseFd(w) ==
  [w EXCEPT !.open_fds = @ \ {w.fd_}, !.fd_ = NoFd, !.drv_count = 0,
            !.drv_length = 0, !.drv_queued = {}, !.drv_streaming = FALSE,
            !.drv_fmt = 0]

\* VIDIOC_QBUF of buffer i succeeds only for an allocated, not yet queued one
QbufOk(w, i, ok) == IoctlOk(w, ok) /\ i < w.drv_count /\ i \notin w.drv_queued

\* VIDIOC_DQBUF hands out a queued buffer of a running stream
DqbufOk(w, dq) ==
  /\ IoctlOk(w, dq.res = "ok")
  /\ w.drv_streaming
  /\ dq.index \in w.drv_queued

\* -------------------------------------------------------------- V4L2Device
IsOpen(w) == w.fd_ >= 0

RECURSIVE CleanupLoop(_, _)
CleanupLoop(w, i) ==
  IF i > Len(w.buffers_) THEN w
  ELSE LET b == w.buffers_[i]
       IN CleanupLoop(IF b.start # nullptr /\ b.start # MAP_FAILED
                      THEN Munmap(w, b.start) ELSE w, i + 1)

CleanupMemoryMapping(w) == [CleanupLoop(w, 1) EXCEPT !.buffers_ = << >>]

StopStreaming(w, streamoff_ok) ==
  IF ~w.streaming_ THEN [w |-> w, ret |-> TRUE]
  ELSE IF ~IoctlOk(w, streamoff_ok) THEN [w |-> w, ret |-> FALSE]
  ELSE [w |-> [w EXCEPT !.streaming_ = FALSE, !.drv_streaming = FALSE,
                        !.drv_queued = {}],
        ret |-> TRUE]

Close(w, streamoff_ok) ==
  LET w1 == IF w.streaming_ THEN StopStreaming(w, streamoff_ok).w ELSE w
      w2 == CleanupMemoryMapping(w1)
  IN IF w2.fd_ >= 0 THEN CloseFd(w2) ELSE w2

\* open(2) hands out the lowest free descriptor
Open(w, open_ok, streamoff_ok, default_fmt) ==
  LET w1 == IF IsOpen(w) THEN Close(w, streamoff_ok) ELSE w
      free == { f \in Fds : f \notin w1.open_fds }
  IN IF open_ok /\ free # {}
     THEN LET fd == CHOOSE f \in free : \A g \in free : f <= g
          IN [w |-> [w1 EXCEPT !.fd_ = fd, !.open_fds = @ \cup {fd},
                               !.drv_fmt = default_fmt],
              ret |-> TRUE]
     ELSE [w |-> [w1 EXCEPT !.fd_ = NoFd], ret |-> FALSE]

QueryCapabilities(w, querycap_ok) == IoctlOk(w, querycap_ok)

\* VIDIOC_ENUM_FMT until it fails: the driver's list, nothing without a device
QueryFormats(w, formats) ==
  [ret |-> TRUE, formats |-> IF w.fd_ >= 0 THEN formats ELSE << >>]

GetDeviceInfo(w, info_formats, querycap_ok, formats) ==
  IF ~IsOpen(w) THEN [ret |-> FALSE, formats |-> info_formats]
  ELSE IF ~QueryCapabilities(w, querycap_ok)
       THEN [ret |-> FALSE, formats |-> info_formats]
  ELSE QueryFormats(w, formats)

SetFormat(w, width, height, pixel_format, s_fmt_ok, answer) ==
  IF ~IsOpen(w) THEN [w |-> w, ret |-> FALSE]
  ELSE IF ~IoctlOk(w, s_fmt_ok) THEN [w |-> w, ret |-> FALSE]
  ELSE [w |-> [w EXCEPT !.drv_fmt = answer], ret |-> answer = pixel_format]

GetFormat(w, pixel_format, g_fmt_ok) ==
  IF ~IsOpen(w) THEN [ret |-> FALSE, pixel_format |-> pixel_format]
  ELSE IF ~IoctlOk(w, g_fmt_ok) THEN [ret |-> FALSE, pixel_format |-> pixel_format]
  ELSE [ret |-> TRUE, pixel_format |-> w.drv_fmt]

\* buffers_.resize(n) on an empty vector: n value-initialised elements
Resize(n) == [i \in 1..n |-> [start |-> nullptr, length |-> 0, index |-> 0]]

\* the mapping loop, from buffer i (0-based) on
RECURSIVE MapLoop(_, _, _, _)
MapLoop(w, i, count, env) ==
  IF i >= count THEN [w |-> w, ret |-> TRUE]
  ELSE IF ~IoctlOk(w, ~(env.fail_kind = "querybuf" /\ env.fail_at = i))
       THEN [w |-> CleanupMemoryMapping(w), ret |-> FALSE]
  ELSE LET a == Mmap(w, ~(env.fail_kind = "mmap" /\ env.fail_at = i))
           w1 == [w EXCEPT !.buffers_[i + 1] =
                             [start |-> a, length |-> w.drv_length, index |-> i],
                           !.mapped = IF a = MAP_FAILED THEN @ ELSE @ \cup {a},
                           !.created = IF a = MAP_FAILED THEN @ ELSE @ \cup {a}]
       IN IF a = MAP_FAILED
          THEN [w |-> CleanupMemoryMapping(w1), ret |-> FALSE]
          ELSE MapLoop(w1, i + 1, count, env)

\* InitMemoryMapping without the CleanupMemoryMapping() call of line 152
InitMemoryMappingKeepsOld(w, buffer_count, env) ==
  IF ~IsOpen(w) THEN [w |-> w, ret |-> FALSE]
  ELSE IF ~(IoctlOk(w, env.reqbufs_ok) /\ ~w.drv_streaming)
       THEN [w |-> w, ret |-> FALSE]
       ELSE LET w2 == [w EXCEPT !.drv_count = env.count,
                                !.drv_length = env.length,
                                !.drv_queued = {}]
            IN IF env.count < 2 THEN [w |-> w2, ret |-> FALSE]
               ELSE MapLoop([w2 EXCEPT !.buffers_ = Resize(env.count)],
                            0, env.count, env)

\* env: the outcome of VIDIOC_REQBUFS (ok, granted count, buffer length) and
\* the place where VIDIOC_QUERYBUF or mmap fails, if any
InitMemoryMapping(w, buffer_count, env) ==
  IF ~IsOpen(w) THEN [w |-> w, ret |-> FALSE]
  ELSE LET w1 == CleanupMemoryMapping(w)
       IN IF ~(IoctlOk(w1, env.reqbufs_ok) /\ ~w1.drv_streaming)
          THEN [w |-> w1, ret |-> FALSE]
          ELSE LET w2 == [w1 EXCEPT !.drv_count = env.count,
                                    !.drv_length = env.length,
                                    !.drv_queued = {}]
               IN IF env.count < 2 THEN [w |-> w2, ret |-> FALSE]
                  ELSE MapLoop([w2 EXCEPT !.buffers_ = Resize(env.count)],
                               0, env.count, env)

RECURSIVE QueueLoop(_, _, _)
QueueLoop(w, i, qbuf_fail_at) ==
  IF i >= Len(w.buffers_) THEN [w |-> w, ret |-> TRUE]
  ELSE IF ~QbufOk(w, i, i # qbuf_fail_at) THEN [w |-> w, ret |-> FALSE]
  ELSE QueueLoop([w EXCEPT !.drv_queued = @ \cup {i}], i + 1, qbuf_fail_at)

StartStreaming(w, qbuf_fail_at, streamon_ok) ==
  IF ~IsOpen(w) \/ w.buffers_ = << >> THEN [w |-> w, ret |-> FALSE]
  ELSE LET q == QueueLoop(w, 0, qbuf_fail_at)
       IN IF ~q.ret THEN q
          ELSE IF ~IoctlOk(q.w, streamon_ok) THEN [w |-> q.w, ret |-> FALSE]
          ELSE [w |-> [q.w EXCEPT !.streaming_ = TRUE, !.drv_streaming = TRUE],
                ret |-> TRUE]

\* ReadFrame reporting the buffer's length instead of bytesused
ReadFrameReportsLength(w, frame_data, frame_size, dq, qbuf_ok) ==
  IF ~IsOpen(w) \/ ~w.streaming_ \/ ~DqbufOk(w, dq)
  THEN [w |-> w, ret |-> FALSE, frame_data |-> frame_data,
        frame_size |-> frame_size, dequeued |-> FALSE]
  ELSE LET w1 == [w EXCEPT !.drv_queued = @ \ {dq.index}]
       IN IF dq.index >= Len(w1.buffers_)
          THEN [w |-> w1, ret |-> FALSE, frame_data |-> frame_data,
                frame_size |-> frame_size, dequeued |-> TRUE]
          ELSE [w |-> IF QbufOk(w1, dq.index, qbuf_ok) THEN w ELSE w1,
                ret |-> QbufOk(w1, dq.index, qbuf_ok),
                frame_data |-> w1.buffers_[dq.index + 1].start,
                frame_size |-> w1.buffers_[dq.index + 1].length,
                dequeued |-> TRUE]

\* ReadFrame ignoring the result of the VIDIOC_QBUF that re-queues the buffer
ReadFrameIgnoresRequeue(w, frame_data, frame_size, dq, qbuf_ok) ==
  IF ~IsOpen(w) \/ ~w.streaming_ \/ ~DqbufOk(w, dq)
  THEN [w |-> w, ret |-> FALSE, frame_data |-> frame_data,
        frame_size |-> frame_size, dequeued |-> FALSE]
  ELSE LET w1 == [w EXCEPT !.drv_queued = @ \ {dq.index}]
       IN IF dq.index >= Len(w1.buffers_)
          THEN [w |-> w1, ret |-> FALSE, frame_data |-> frame_data,
                frame_size |-> frame_size, dequeued |-> TRUE]
          ELSE [w |-> IF QbufOk(w1, dq.index, qbuf_ok) THEN w ELSE w1,
                ret |-> TRUE,
                frame_data |-> w1.buffers_[dq.index + 1].start,
                frame_size |-> dq.bytesused, dequeued |-> TRUE]

\* dq: the outcome of VIDIOC_DQBUF (res, index, bytesused)
ReadFrame(w, frame_data, frame_size, dq, qbuf_ok) ==
  IF ~IsOpen(w) \/ ~w.streaming_
  THEN [w |-> w, ret |-> FALSE, frame_data |-> frame_data,
        frame_size |-> frame_size, dequeued |-> FALSE]
  ELSE IF ~DqbufOk(w, dq)
  THEN [w |-> w, ret |-> FALSE, frame_data |-> frame_data,
        frame_size |-> frame_size, dequeued |-> FALSE]
  ELSE LET w1 == [w EXCEPT !.drv_queued = @ \ {dq.index}]
       IN IF dq.index >= Len(w1.buffers_)
          THEN [w |-> w1, ret |-> FALSE, frame_data |-> frame_data,
                frame_size |-> frame_size, dequeued |-> TRUE]
          ELSE IF ~QbufOk(w1, dq.index, qbuf_ok)
          THEN [w |-> w1, ret |-> FALSE,
                frame_data |-> w1.buffers_[dq.index + 1].start,
                frame_size |-> dq.bytesused, dequeued |-> TRUE]
          ELSE [w |-> [w1 EXCEPT !.drv_queued = @ \cup {dq.index}],
                ret |-> TRUE,
                frame_data |-> w1.buffers_[dq.index + 1].start,
                frame_size |-> dq.bytesused, dequeued |-> TRUE]

QueueBuffer(w, index, qbuf_ok) ==
  IF index >= Len(w.buffers_) THEN [w |-> w, ret |-> FALSE]
  ELSE IF ~QbufOk(w, index, qbuf_ok) THEN [w |-> w, ret |-> FALSE]
  ELSE [w |-> [w EXCEPT !.drv_queued = @ \cup {index}], ret |-> TRUE]


\* ------------------------------------------------------------ demo helpers
GetFileExtension(pixel_format) ==
  IF pixel_format = V4L2_PIX_FMT_MJPEG \/ pixel_format = V4L2_PIX_FMT_JPEG
  THEN "jpg" ELSE "raw"

\* operator<< of an int: its decimal digits
RECURSIVE Decimal(_)
Decimal(n) == IF n < 10 THEN << n >> ELSE Append(Decimal(n \div 10), n % 10)

\* std::setfill('0') << std::setw(w): pad on the left up to width w
RECURSIVE SetW(_, _)
SetW(digits, w) == IF Len(digits) >= w THEN digits ELSE SetW(<< 0 >> \o digits, w)

GenerateOutputFilename(frame_index, pixel_format) ==
  [ dir |-> "output", stem |-> "frame_", number |-> SetW(Decimal(frame_index), 3),
    ext |-> GetFileExtension(pixel_format) ]

SaveFrameToFile(fs, frame_index, pixel_format, write_ok) ==
  IF write_ok
  THEN [ret |-> TRUE, files |-> fs \cup {GenerateOutputFilename(frame_index, pixel_format)}]
  ELSE [ret |-> FALSE, files |-> fs]

difftime(t1, t0) == t1 - t0

PrintFrameInfo(st, current_time) ==
  IF difftime(current_time, st.last_print_time) < 1
  THEN [stats |-> st, ret |-> FALSE]
  ELSE [stats |-> [st EXCEPT !.last_print_time = current_time], ret |-> TRUE]

\* the save step without the wrap of the frame index
SaveStepNoWrap(st, fs, current_time, pixel_format, write_ok) ==
  IF difftime(current_time, st.last_save_time) >= kSaveIntervalSeconds
  THEN LET sv == SaveFrameToFile(fs, st.current_frame_index, pixel_format, write_ok)
       IN IF sv.ret
          THEN [stats |-> [st EXCEPT !.saved_frames = @ + 1,
                                     !.last_save_time = current_time,
                                     !.current_frame_index = @ + 1],
                files |-> sv.files, result |-> "saved",
                file |-> GenerateOutputFilename(st.current_frame_index, pixel_format)]
          ELSE [stats |-> st, files |-> fs, result |-> "failed", file |-> "none"]
  ELSE [stats |-> st, files |-> fs, result |-> "none", file |-> "none"]

\* the save step without the update of last_save_time
SaveStepKeepsTimer(st, fs, current_time, pixel_format, write_ok) ==
  IF difftime(current_time, st.last_save_time) >= kSaveIntervalSeconds
  THEN LET sv == SaveFrameToFile(fs, st.current_frame_index, pixel_format, write_ok)
       IN IF sv.ret
          THEN [stats |-> [st EXCEPT !.saved_frames = @ + 1,
                                     !.current_frame_index =
                                       (@ + 1) % kMaxSavedFrames],
                files |-> sv.files, result |-> "saved",
                file |-> GenerateOutputFilename(st.current_frame_index, pixel_format)]
          ELSE [stats |-> st, files |-> fs, result |-> "failed", file |-> "none"]
  ELSE [stats |-> st, files |-> fs, result |-> "none", file |-> "none"]

\* main, lines 365-379: save the frame if the interval has elapsed
SaveStep(st, fs, current_time, pixel_format, write_ok) ==
  IF difftime(current_time, st.last_save_time) >= kSaveIntervalSeconds
  THEN LET sv == SaveFrameToFile(fs, st.current_frame_index, pixel_format, write_ok)
       IN IF sv.ret
          THEN [stats |-> [st EXCEPT !.saved_frames = @ + 1,
                                     !.last_save_time = current_time,
                                     !.current_frame_index =
                                       (@ + 1) % kMaxSavedFrames],
                files |-> sv.files, result |-> "saved",
                file |-> GenerateOutputFilename(st.current_frame_index, pixel_format)]
          ELSE [stats |-> st, files |-> fs, result |-> "failed", file |-> "none"]
  ELSE [stats |-> st, files |-> fs, result |-> "none", file |-> "none"]

\* SelectBestFormat walking the supported list first
RECURSIVE FirstSupportedLoop(_, _)
FirstSupportedLoop(supported, j) ==
  IF j > Len(supported)
  THEN IF supported # << >> THEN supported[1] ELSE 0
  ELSE IF \E i \in 1..Len(kPreferredFormats) : kPreferredFormats[i] = supported[j]
       THEN supported[j]
       ELSE FirstSupportedLoop(supported, j + 1)

SelectFirstSupported(supported) == FirstSupportedLoop(supported, 1)

RECURSIVE SupportedLoop(_, _, _)
SupportedLoop(supported, preferred_format, j) ==
  IF j > Len(supported) THEN FALSE
  ELSE IF supported[j] = preferred_format THEN TRUE
  ELSE SupportedLoop(supported, preferred_format, j + 1)

RECURSIVE PreferredLoop(_, _)
PreferredLoop(supported, i) ==
  IF i > kPreferredFormatsCount
  THEN IF supported # << >> THEN supported[1] ELSE 0
  ELSE IF SupportedLoop(supported, kPreferredFormats[i], 1)
       THEN kPreferredFormats[i]
       ELSE PreferredLoop(supported, i + 1)

SelectBestFormat(supported) == PreferredLoop(supported, 1)

\* ------------------------------------------------------------------- Init
NoStats ==
  [ total_frames |-> 0, saved_frames |-> 0, start_time |-> 0,
    last_save_time |-> 0, last_print_time |-> 0, current_frame_index |-> 0 ]

NoLast ==
  [ op |-> "none", ret |-> FALSE, arg |-> 0, was_open |-> FALSE,
    was_streaming |-> FALSE, prev_starts |-> {}, dq_ok |-> FALSE,
    dq_res |-> "none", dq_index |-> 0, dq_bytes |-> 0, qbuf_ok |-> FALSE,
    frame_data |-> nullptr, frame_size |-> 0, dequeued |-> FALSE ]

\* V4L2Device::V4L2Device(), in a process that holds no device yet
InitDevice ==
  /\ fd_ = NoFd
  /\ buffers_ = << >>
  /\ streaming_ = FALSE
  /\ open_fds = {}
  /\ mapped = {}
  /\ created = {}
  /\ munmaps = NoMunmaps
  /\ drv_count = 0
  /\ drv_length = 0
  /\ drv_queued = {}
  /\ drv_streaming = FALSE
  /\ drv_fmt = 0
  /\ last = NoLast
  /\ start_queued = {}
  /\ only_reads = FALSE
  /\ requeue_failed = FALSE

InitMainVars ==
  /\ pc = "find"
  /\ calls = << >>
  /\ selected_format = 0
  /\ actual_format = 0
  /\ stats = NoStats
  /\ now = 0
  /\ files = {}
  /\ sfmt_answer = 0
  /\ save_result = "none"
  /\ saved_file = "none"

InitSelVars ==
  /\ supported_formats = << >>
  /\ sel_result = 0
  /\ sel_done = FALSE

Init == InitDevice /\ InitMainVars /\ InitSelVars

\* ------------------------------------------- calls on a V4L2Device object
ValidStarts(bufs) ==
  { bufs[i].start : i \in 1..Len(bufs) } \ { nullptr, MAP_FAILED }

Called(op, ret) ==
  [NoLast EXCEPT !.op = op, !.ret = ret, !.was_open = fd_ >= 0,
                 !.was_streaming = streaming_,
                 !.prev_starts = ValidStarts(buffers_)]

\* any call but ReadFrame ends a run of ReadFrame calls
OtherCall ==
  /\ start_queued' = {}
  /\ only_reads' = FALSE
  /\ requeue_failed' = FALSE

DoOpen ==
  \E open_ok \in BOOLEAN, streamoff_ok \in BOOLEAN :
    LET r == Open(Entry, open_ok, streamoff_ok, V4L2_PIX_FMT_YUYV)
    IN /\ Commit(Forget(r.w))
       /\ last' = Called("Open", r.ret)
       /\ OtherCall
       /\ UNCHANGED << mainVars, selVars >>

DoClose ==
  \E streamoff_ok \in BOOLEAN :
    /\ Commit(Forget(Close(Entry, streamoff_ok)))
    /\ last' = Called("Close", TRUE)
    /\ OtherCall
    /\ UNCHANGED << mainVars, selVars >>

\* what the kernel can answer to one InitMemoryMapping: VIDIOC_REQBUFS fails,
\* or grants count buffers of some length and then VIDIOC_QUERYBUF or mmap
\* fails for one of them, or for none (fail_at = count)
MapEnvs ==
  { [reqbufs_ok |-> FALSE, count |-> 0, length |-> 1, fail_kind |-> "none",
     fail_at |-> 0] }
  \cup
  { e \in [ reqbufs_ok : {TRUE}, count : 0..MaxBufs, length : {MaxBytes},
            fail_kind : {"none", "querybuf", "mmap"}, fail_at : 0..MaxBufs ] :
      /\ e.fail_kind = "none" <=> e.fail_at = e.count
      /\ e.fail_at <= e.count
      /\ e.count < 2 => e.fail_kind = "none" }

DoInitMemoryMapping ==
  \E buffer_count \in {2, kBufferCount}, env \in MapEnvs :
    LET r == InitMemoryMapping(Entry, buffer_count, env)
    IN /\ Commit(r.w)
       /\ last' = [Called("InitMemoryMapping", r.ret) EXCEPT !.arg = buffer_count]
       /\ OtherCall
       /\ UNCHANGED << mainVars, selVars >>

DoCleanupMemoryMapping ==
  /\ Commit(Forget(CleanupMemoryMapping(Entry)))
  /\ last' = Called("CleanupMemoryMapping", TRUE)
  /\ OtherCall
  /\ UNCHANGED << mainVars, selVars >>

DoStartStreaming ==
  \E qbuf_fail_at \in 0..MaxBufs, streamon_ok \in BOOLEAN :
    LET r == StartStreaming(Entry, qbuf_fail_at, streamon_ok)
    IN /\ Commit(Forget(r.w))
       /\ last' = Called("StartStreaming", r.ret)
       /\ start_queued' = IF r.ret THEN r.w.drv_queued ELSE {}
       /\ only_reads' = r.ret
       /\ requeue_failed' = FALSE
       /\ UNCHANGED << mainVars, selVars >>

DoStopStreaming ==
  \E streamoff_ok \in BOOLEAN :
    LET r == StopStreaming(Entry, streamoff_ok)
    IN /\ Commit(Forget(r.w))
       /\ last' = Called("StopStreaming", r.ret)
       /\ OtherCall
       /\ UNCHANGED << mainVars, selVars >>

\* what VIDIOC_DQBUF can answer: a filled buffer, EAGAIN, or another error
DqOutcomes ==
  [ res : {"ok"}, index : 0..(MaxBufs - 1), bytesused : 1..MaxBytes ]
  \cup [ res : {"eagain", "err"}, index : {0}, bytesused : {0} ]

DoReadFrame ==
  \E dq \in DqOutcomes, qbuf_ok \in BOOLEAN :
    LET r == ReadFrame(Entry, nullptr, 0, dq, qbuf_ok)
    IN /\ dq.res = "ok" => DqbufOk(Entry, dq) /\ dq.bytesused <= drv_length
       /\ dq.res # "ok" => ~qbuf_ok
       /\ Commit(Forget(r.w))
       /\ last' = [Called("ReadFrame", r.ret) EXCEPT
                     !.dq_ok = DqbufOk(Entry, dq), !.dq_res = dq.res,
                     !.dq_index = dq.index, !.dq_bytes = dq.bytesused,
                     !.qbuf_ok = qbuf_ok, !.frame_data = r.frame_data,
                     !.frame_size = r.frame_size, !.dequeued = r.dequeued]
       /\ requeue_failed' = (requeue_failed \/ (r.dequeued /\ ~r.ret))
       /\ UNCHANGED << start_queued, only_reads, mainVars, selVars >>

DoQueueBuffer ==
  \E index \in 0..MaxBufs, qbuf_ok \in BOOLEAN :
    LET r == QueueBuffer(Entry, index, qbuf_ok)
    IN /\ Commit(Forget(r.w))
       /\ last' = [Called("QueueBuffer", r.ret) EXCEPT !.arg = index]
       /\ OtherCall
       /\ UNCHANGED << mainVars, selVars >>

NextDev ==
  \/ DoOpen
  \/ DoClose
  \/ DoInitMemoryMapping
  \/ DoCleanupMemoryMapping
  \/ DoStartStreaming
  \/ DoStopStreaming
  \/ DoReadFrame
  \/ DoQueueBuffer

\* every sequence of calls a client can make on one V4L2Device
SpecDev == Init /\ [][NextDev]_vars


\* ------------------------------------------------------------------ main
Call(op, arg, ret) == [op |-> op, arg |-> arg, ret |-> ret]

\* return EXIT_FAILURE once `device` exists: ~V4L2Device() runs Close()
ExitFailure(w) ==
  /\ \E streamoff_ok \in BOOLEAN : Commit(Forget(Close(w, streamoff_ok)))
  /\ pc' = "exit_failure"

\* FindVideoDevices, FindFrontCamera, CreateOutputDirectory
MainFindDevices ==
  /\ pc = "find"
  /\ \E device_found \in BOOLEAN, directory_ok \in BOOLEAN :
       pc' = IF device_found /\ directory_ok THEN "open" ELSE "exit_failure"
  /\ UNCHANGED << devVars, histVars, selVars, calls, selected_format,
                  actual_format, stats, now, files, sfmt_answer, save_result,
                  saved_file >>

MainOpen ==
  /\ pc = "open"
  /\ \E open_ok \in BOOLEAN, default_fmt \in DriverFormats :
       LET r == Open(Entry, open_ok, TRUE, default_fmt)
       IN /\ calls' = Append(calls, Call("Open", 0, r.ret))
          /\ IF r.ret THEN Commit(Forget(r.w)) /\ pc' = "setup" ELSE ExitFailure(r.w)
  /\ UNCHANGED << histVars, selVars, selected_format, actual_format, stats,
                  now, files, sfmt_answer, save_result, saved_file >>

\* GetDeviceInfo, PrintSupportedFormats, SelectBestFormat
MainGetDeviceInfo ==
  /\ pc = "setup"
  /\ \E querycap_ok \in BOOLEAN, formats \in SeqsUpTo(DriverFormats, MaxLen) :
       LET r == GetDeviceInfo(Entry, << >>, querycap_ok, formats)
           best == SelectBestFormat(r.formats)
       IN /\ calls' = Append(calls, Call("GetDeviceInfo", 0, r.ret))
          /\ IF r.ret /\ best # 0
             THEN /\ Commit(Entry)
                  /\ selected_format' = best
                  /\ pc' = "setfmt"
             ELSE /\ ExitFailure(Entry)
                  /\ UNCHANGED selected_format
  /\ UNCHANGED << histVars, selVars, actual_format, stats, now, files,
                  sfmt_answer, save_result, saved_file >>

MainSetFormat ==
  /\ pc = "setfmt"
  /\ \E s_fmt_ok \in BOOLEAN, answer \in DriverFormats :
       LET r == SetFormat(Entry, kVideoWidth, kVideoHeight, selected_format,
                          s_fmt_ok, answer)
       IN /\ calls' = Append(calls, Call("SetFormat", selected_format, r.ret))
          /\ sfmt_answer' = IF IoctlOk(Entry, s_fmt_ok) THEN answer ELSE 0
          /\ IF r.ret THEN Commit(Forget(r.w)) /\ pc' = "getfmt" ELSE ExitFailure(r.w)
  /\ UNCHANGED << histVars, selVars, selected_format, actual_format, stats,
                  now, files, save_result, saved_file >>

MainGetFormat ==
  /\ pc = "getfmt"
  /\ \E g_fmt_ok \in BOOLEAN :
       LET r == GetFormat(Entry, 0, g_fmt_ok)
       IN /\ calls' = Append(calls, Call("GetFormat", 0, r.ret))
          /\ IF r.ret
             THEN /\ Commit(Entry)
                  /\ actual_format' = r.pixel_format
                  /\ selected_format' = IF r.pixel_format # selected_format
                                        THEN r.pixel_format ELSE selected_format
                  /\ pc' = "initmm"
             ELSE /\ ExitFailure(Entry)
                  /\ UNCHANGED << actual_format, selected_format >>
  /\ UNCHANGED << histVars, selVars, stats, now, files, sfmt_answer,
                  save_result, saved_file >>

MainInitMemoryMapping ==
  /\ pc = "initmm"
  /\ \E env \in MapEnvs :
       LET r == InitMemoryMapping(Entry, kBufferCount, env)
       IN /\ calls' = Append(calls, Call("InitMemoryMapping", kBufferCount, r.ret))
          /\ IF r.ret THEN Commit(Forget(r.w)) /\ pc' = "stream" ELSE ExitFailure(r.w)
  /\ UNCHANGED << histVars, selVars, selected_format, actual_format, stats,
                  now, files, sfmt_answer, save_result, saved_file >>

\* StartStreaming with its result ignored
MainStartStreamingUnchecked ==
  /\ pc = "stream"
  /\ \E qbuf_fail_at \in 0..MaxBufs, streamon_ok \in BOOLEAN :
       LET r == StartStreaming(Entry, qbuf_fail_at, streamon_ok)
       IN /\ calls' = Append(calls, Call("StartStreaming", 0, r.ret))
          /\ Commit(Forget(r.w))
          /\ stats' = [NoStats EXCEPT !.start_time = now, !.last_save_time = now,
                                      !.last_print_time = now]
          /\ pc' = "loop"
  /\ UNCHANGED << histVars, selVars, selected_format, actual_format, now,
                  files, sfmt_answer, save_result, saved_file >>

\* StartStreaming, then FrameStats stats = {} with the three times set
MainStartStreaming ==
  /\ pc = "stream"
  /\ \E qbuf_fail_at \in 0..MaxBufs, streamon_ok \in BOOLEAN :
       LET r == StartStreaming(Entry, qbuf_fail_at, streamon_ok)
       IN /\ calls' = Append(calls, Call("StartStreaming", 0, r.ret))
          /\ IF r.ret
             THEN /\ Commit(Forget(r.w))
                  /\ stats' = [NoStats EXCEPT !.start_time = now,
                                              !.last_save_time = now,
                                              !.last_print_time = now]
                  /\ pc' = "loop"
             ELSE /\ ExitFailure(r.w)
                  /\ UNCHANGED stats
  /\ UNCHANGED << histVars, selVars, selected_format, actual_format, now,
                  files, sfmt_answer, save_result, saved_file >>

\* the part of the run that is explored: the clock stays within MaxLag of the
\* last printed and the last saved frame, and total_frames within MaxLag of
\* saved_frames
Explored(st, t) ==
  /\ t <= MaxTime
  /\ difftime(t, st.last_save_time) <= MaxLag
  /\ difftime(t, st.last_print_time) <= MaxLag
  /\ st.total_frames - st.saved_frames <= MaxLag

\* one iteration of while (true): the clock advances by d1 before the time()
\* of PrintFrameInfo (or during usleep) and by d2 before the time() of the
\* save check
MainLoop ==
  /\ pc = "loop"
  /\ \E dq \in DqOutcomes, qbuf_ok \in BOOLEAN :
       LET r == ReadFrame(Entry, nullptr, 0, dq, qbuf_ok)
       IN \* main keeps nothing of the frame: full frames only
          /\ dq.res = "ok" => DqbufOk(Entry, dq) /\ dq.bytesused = drv_length
          /\ dq.res # "ok" => ~qbuf_ok
          /\ Commit(Forget(r.w))
          /\ IF r.ret
             THEN \E d1 \in 0..1, d2 \in 0..1, write_ok \in BOOLEAN :
                  LET counted == [stats EXCEPT !.total_frames = @ + 1]
                      printed == PrintFrameInfo(counted, now + d1).stats
                      current_time == now + d1 + d2
                      sv == SaveStep(printed, files, current_time, actual_format,
                                     write_ok)
                  IN \* the file system is asked only when a save is attempted
                     /\ sv.result = "none" => write_ok
                     /\ Explored(sv.stats, current_time)
                     /\ now' = current_time
                     /\ stats' = sv.stats
                     /\ files' = sv.files
                     /\ save_result' = sv.result
                     /\ saved_file' = IF sv.result = "saved" THEN sv.file
                                      ELSE saved_file
             ELSE \E d1 \in 0..1 :
                  /\ Explored(stats, now + d1)
                  /\ now' = now + d1
                  /\ save_result' = "none"
                  /\ UNCHANGED << stats, files, saved_file >>
  /\ UNCHANGED << histVars, selVars, pc, calls, selected_format, actual_format,
                  sfmt_answer >>

NextMain ==
  \/ MainFindDevices
  \/ MainOpen
  \/ MainGetDeviceInfo
  \/ MainSetFormat
  \/ MainGetFormat
  \/ MainInitMemoryMapping
  \/ MainStartStreaming
  \/ MainLoop

\* one run of the demo
SpecMain == Init /\ [][NextMain]_vars

\* ------------------------------------------------ SelectBestFormat alone
InitSel ==
  /\ InitDevice
  /\ InitMainVars
  /\ supported_formats \in SeqsUpTo(PixelFormats, MaxLen)
  /\ sel_result = 0
  /\ sel_done = FALSE

DoSelectBestFormat ==
  /\ ~sel_done
  /\ sel_result' = SelectBestFormat(supported_formats)
  /\ sel_done' = TRUE
  /\ UNCHANGED << devVars, histVars, mainVars, supported_formats >>

NextSel == DoSelectBestFormat

SpecSel == InitSel /\ [][NextSel]_vars

\* ------------------------------------------------- claims on V4L2Device
\* C2: ReadFrame returns true only if the device was open and marked
\* streaming, VIDIOC_DQBUF handed out a buffer whose index is below the number
\* of mapped buffers, and the VIDIOC_QBUF that re-queues this buffer succeeded;
\* then *frame_data is the mapped start address of that buffer and *frame_size
\* the bytesused reported for it.  On EAGAIN, on a closed device and on a
\* device not marked streaming it returns false.
C2_ReadFrameContract ==
  last.op = "ReadFrame" =>
    /\ last.ret =>
         /\ last.was_open /\ last.was_streaming
         /\ last.dq_ok
         /\ last.dq_index < Len(buffers_)
         /\ last.qbuf_ok /\ last.dq_index \in drv_queued
         /\ last.frame_data = buffers_[last.dq_index + 1].start
         /\ last.frame_data \in mapped
         /\ last.frame_size = last.dq_bytes
    /\ (last.dq_res = "eagain" \/ ~last.was_open \/ ~last.was_streaming)
         => ~last.ret

\* a frame shorter than its buffer was read
C2_Witness ==
  /\ last.op = "ReadFrame" /\ last.ret
  /\ last.frame_size < buffers_[last.dq_index + 1].length
  /\ last.dq_index > 0

\* C3: InitMemoryMapping on an open device unmaps every buffer mapped before
\* the call; when it returns true buffers_ holds exactly the granted number of
\* buffers (at least 2), each mapped, with its length and its index; when it
\* returns false buffers_ is empty and every mapping made during the call was
\* unmapped exactly once.
C3_InitMemoryMappingContract ==
  last.op = "InitMemoryMapping" =>
    /\ ~last.was_open => ~last.ret
    /\ last.was_open =>
         \A a \in last.prev_starts : munmaps[a] = 1 /\ a \notin mapped
    /\ last.ret =>
         /\ Len(buffers_) = drv_count
         /\ drv_count >= 2
         /\ \A i \in 1..Len(buffers_) :
              /\ buffers_[i].start \in mapped
              /\ buffers_[i].start \in created
              /\ buffers_[i].length = drv_length
              /\ buffers_[i].index = i - 1
         /\ \A i, j \in 1..Len(buffers_) :
              i # j => buffers_[i].start # buffers_[j].start
         /\ mapped = created
    /\ ~last.ret =>
         /\ buffers_ = << >>
         /\ mapped = {}
         /\ \A a \in created : munmaps[a] = 1

\* a call that replaced old mappings and failed after it had made new ones
C3_Witness ==
  /\ last.op = "InitMemoryMapping" /\ ~last.ret
  /\ last.prev_starts # {}
  /\ created # {}

\* a call that replaced old mappings by a different number of new ones
C3_WitnessGranted ==
  /\ last.op = "InitMemoryMapping" /\ last.ret
  /\ last.prev_starts # {}
  /\ Len(buffers_) # last.arg

\* C4: after Close the device is not open, no buffer is mapped and the device
\* is not marked streaming, whatever the ioctls answered; the object never
\* holds more than one file descriptor.
C4_CloseResetsDevice ==
  /\ last.op = "Close" =>
       fd_ < 0 /\ buffers_ = << >> /\ mapped = {} /\ ~streaming_
  /\ Cardinality(open_fds) <= 1

MainSequence ==
  << "Open", "GetDeviceInfo", "SetFormat", "GetFormat", "InitMemoryMapping",
     "StartStreaming" >>

\* C1: main reaches the capture loop only after Open, GetDeviceInfo, SetFormat,
\* GetFormat, InitMemoryMapping(4) and StartStreaming were each called once, in
\* this order, and each returned true; once one of them has returned false main
\* is at return EXIT_FAILURE and has called none of the later ones.
C1_SetupOrder ==
  /\ Len(calls) <= Len(MainSequence)
  /\ \A i \in 1..Len(calls) :
       /\ calls[i].op = MainSequence[i]
       /\ i < Len(calls) => calls[i].ret
       /\ calls[i].op = "InitMemoryMapping" => calls[i].arg = 4
       /\ ~calls[i].ret => pc = "exit_failure"
  /\ (pc = "loop" \/ stats.total_frames > 0) =>
       /\ Len(calls) = Len(MainSequence)
       /\ calls[Len(calls)].ret
       /\ fd_ >= 0 /\ streaming_ /\ Len(buffers_) >= 2

\* the loop has read a frame
C1_Witness == pc = "loop" /\ stats.total_frames > 0

\* a step in the middle of the sequence failed
C1_WitnessFailure ==
  pc = "exit_failure" /\ Len(calls) = 4 /\ ~calls[4].ret

\* C5: when VIDIOC_S_FMT answers with another pixel format than the requested
\* one, main does not return EXIT_FAILURE at the SetFormat step.
C5_AdjustedFormatAccepted ==
  (Len(calls) = 3 /\ sfmt_answer # 0 /\ sfmt_answer # calls[3].arg)
    => pc # "exit_failure"

\* C6: a frame is saved only if at least kSaveIntervalSeconds of the time()
\* clock have passed since the last successful save (since the start of the
\* stream for the first one), and the reading becomes the new last_save_time,
\* so that two saves are never less than a second apart; a failed save and an
\* iteration without a save leave last_save_time and saved_frames alone;
\* saved_frames never exceeds total_frames.
C6_SaveThrottle ==
  /\ [](/\ stats.saved_frames <= stats.total_frames
        /\ stats.saved_frames <= stats.last_save_time - stats.start_time
        /\ save_result = "saved" => stats.last_save_time = now)
  /\ [][ pc = "loop" =>
           /\ stats'.saved_frames \in { stats.saved_frames, stats.saved_frames + 1 }
           /\ save_result' = "saved" <=> stats'.saved_frames = stats.saved_frames + 1
           /\ save_result' = "saved" =>
                /\ now' - stats.last_save_time >= 1
                /\ stats'.last_save_time = now'
                /\ stats'.total_frames = stats.total_frames + 1
           /\ save_result' # "saved" =>
                stats'.last_save_time = stats.last_save_time ]_vars

\* a save failed when one was due, and the next frame was saved
C6_Witness ==
  /\ pc = "loop" /\ save_result = "failed"
  /\ stats.saved_frames >= 2
  /\ now - stats.last_save_time >= 1

\* a frame was read less than a second after a save, and not saved
C6_WitnessThrottled ==
  /\ pc = "loop" /\ save_result = "none"
  /\ stats.saved_frames >= 1 /\ stats.total_frames > stats.saved_frames
  /\ now = stats.last_save_time

\* the name the k-th save must write, k counted from 0
ExpectedFile(k, ext) ==
  [ dir |-> "output", stem |-> "frame_",
    number |-> << 0, (k % 20) \div 10, (k % 20) % 10 >>, ext |-> ext ]

ExpectedExt == IF actual_format = V4L2_PIX_FMT_MJPEG THEN "jpg" ELSE "raw"

\* C7: current_frame_index stays in 0..19; the k-th successful save writes
\* output/frame_<k mod 20>; the index moves by one modulo 20 on a successful
\* save and not at all otherwise; at most 20 files exist.
C7_FrameIndexWraps ==
  /\ [](pc = "loop" =>
          /\ stats.current_frame_index \in 0..19
          /\ stats.current_frame_index = stats.saved_frames % 20
          /\ Cardinality(files) <= 20
          /\ files = { ExpectedFile(k, ExpectedExt) : k \in 0..(stats.saved_frames - 1) }
          /\ stats.saved_frames > 0 =>
               saved_file = ExpectedFile(stats.saved_frames - 1, ExpectedExt))
  /\ [][ pc = "loop" =>
           /\ save_result' = "saved" =>
                stats'.current_frame_index = (stats.current_frame_index + 1) % 20
           /\ save_result' # "saved" =>
                /\ stats'.current_frame_index = stats.current_frame_index
                /\ files' = files ]_vars

\* the 21st save has overwritten frame_000
C7_Witness ==
  /\ pc = "loop" /\ save_result = "saved"
  /\ stats.saved_frames = 21
  /\ stats.current_frame_index = 1
  /\ saved_file.number = << 0, 0, 0 >>
  /\ Cardinality(files) = 20

\* ----------------------------------------------- claims on SelectBestFormat
Range(f) == { f[i] : i \in 1..Len(f) }

\* C8: SelectBestFormat returns the earliest entry of the priority list YUYV,
\* UYVY, YUV420, MJPEG, JPEG that occurs anywhere in the supported list; the
\* first supported format if none occurs; and 0 exactly when the list is empty
\* or that first format is itself 0.
C8_SelectBestFormat ==
  sel_done =>
    LET priority == << V4L2_PIX_FMT_YUYV, V4L2_PIX_FMT_UYVY, V4L2_PIX_FMT_YUV420,
                       V4L2_PIX_FMT_MJPEG, V4L2_PIX_FMT_JPEG >>
        present == { i \in 1..5 : priority[i] \in Range(supported_formats) }
    IN /\ present # {} =>
            \E i \in present :
              /\ \A j \in present : i <= j
              /\ sel_result = priority[i]
       /\ (present = {} /\ supported_formats # << >>) =>
            sel_result = supported_formats[1]
       /\ sel_result = 0 <=>
            \/ supported_formats = << >>
            \/ present = {} /\ supported_formats[1] = 0

\* the list starts with JPEG and ends with UYVY: UYVY is chosen
C8_Witness ==
  /\ sel_done
  /\ Len(supported_formats) = 3
  /\ supported_formats[1] = V4L2_PIX_FMT_JPEG
  /\ supported_formats[3] = V4L2_PIX_FMT_UYVY
  /\ sel_result = V4L2_PIX_FMT_UYVY

\* no priority entry in the list: the first supported format is chosen
C8_WitnessFallback ==
  /\ sel_done
  /\ supported_formats = << V4L2_PIX_FMT_H264, 0 >>
  /\ sel_result = V4L2_PIX_FMT_H264

====
